---------------------------- MODULE Spec2Model ----------------------------
(***************************************************************************)
(* Model of juniper_config_analyzer.py: the dependency resolution and      *)
(* reachability engine over one parsed Junos configuration document.       *)
(*                                                                         *)
(* A run is main(): build_dependency_graph (the policy-statement loop,     *)
(* then one iteration of the BGP group loop per group),                    *)
(* find_unused_elements, find_independent_components.                      *)
(*                                                                         *)
(* Text is a sequence of one-character strings, so that the code's string  *)
(* operations (replace, strip, re.split, re.match, embedding a name into   *)
(* an XPath literal) are computed character by character.                  *)
(***************************************************************************)
EXTENDS Integers, Sequences, FiniteSets, TLC

VARIABLES
    cfg,            \* the parsed document (xml_root), immutable during a run
    pc,             \* position in main() / build_dependency_graph
    gi,             \* index of the next BGP group of the group loop
    G,              \* edges of the nx.DiGraph (nodes are the endpoints)
    used,           \* used_elements: type -> set of names
    active_groups,  \* active_groups
    passes,         \* per top-level collect_policy_dependencies call: the
                    \* policy names expanded (visited.add) in that pass, in order
    caught,         \* group indexes whose except branch ran (line 297)
    unused,         \* unused_elements: type -> set of names, empty ones omitted
    independent     \* result of find_independent_components

vars == <<cfg, pc, gi, G, used, active_groups, passes, caught, unused, independent>>

---------------------------------------------------------------------------
(* Bounds of the input documents.                                          *)

\* most policy-to-policy references in a document of the reference family
MaxSubRefs == 3
\* most references inside the policy of a document of the form family
MaxFormRefs == 2
\* most characters of the import expression of a document of the
\* expression family
MaxExprLen == 4

---------------------------------------------------------------------------
(* Text.                                                                   *)

Types == {"prefix-list", "community", "as-path", "as-path-group",
          "policy-statement", "bgp-group"}

\* the characters of the model's texts that Python's \w or "-" match
WordChars == {"A", "B", "C", "U", "G", "K", "L", "M", "P", "S", "x", "y",
              "1", "2", "-", "_"}

IsSpace(c) == c \in {" ", "\n", "\t"}

RECURSIVE LStrip(_)
LStrip(s) == IF s # <<>> /\ IsSpace(Head(s)) THEN LStrip(Tail(s)) ELSE s

RECURSIVE RStrip(_)
RStrip(s) == IF s # <<>> /\ IsSpace(s[Len(s)])
             THEN RStrip(SubSeq(s, 1, Len(s) - 1)) ELSE s

\* str.strip()
Strip(s) == RStrip(LStrip(s))

\* the match as the pattern ^\w+$, without the hyphen, would make it
IsIdentifierNoHyphen(p) == p # <<>> /\ \A i \in 1..Len(p) : p[i] \in WordChars \ {"-"}

\* re.match(r'^[\w-]+$', p)
IsIdentifier(p) == p # <<>> /\ \A i \in 1..Len(p) : p[i] \in WordChars

\* re.split(r'\|\||&&|;|\s+', expr): cur is the piece being read, acc the
\* pieces already cut off
RECURSIVE ReSplit(_, _, _)
ReSplit(s, cur, acc) ==
    IF s = <<>> THEN Append(acc, cur)
    ELSE IF Len(s) >= 2 /\ s[1] = "|" /\ s[2] = "|"
         THEN ReSplit(SubSeq(s, 3, Len(s)), <<>>, Append(acc, cur))
    ELSE IF Len(s) >= 2 /\ s[1] = "&" /\ s[2] = "&"
         THEN ReSplit(SubSeq(s, 3, Len(s)), <<>>, Append(acc, cur))
    ELSE IF s[1] = ";"
         THEN ReSplit(Tail(s), <<>>, Append(acc, cur))
    ELSE IF IsSpace(s[1])
         THEN ReSplit(LStrip(s), <<>>, Append(acc, cur))
    ELSE ReSplit(Tail(s), Append(cur, s[1]), acc)

RECURSIVE KeepNames(_)
KeepNames(pieces) ==
    IF pieces = <<>> THEN <<>>
    ELSE LET p == Strip(Head(pieces))
         IN  IF p # <<>> /\ IsIdentifier(p)
             THEN <<p>> \o KeepNames(Tail(pieces))
             ELSE KeepNames(Tail(pieces))

\* lines 289-290: the policy names of one import/export expression
Normalize(policy_expr) ==
    LET expr == Strip(SelectSeq(policy_expr, LAMBDA c : c \notin {"(", ")"}))
    IN  KeepNames(ReSplit(expr, <<>>, <<>>))

\* a name that breaks the XPath literal text()="{name}" it is embedded in:
\* root.xpath raises XPathEvalError
Malformed(name) == \E i \in 1..Len(name) : name[i] = "\""

\* not s.strip()
Blank(s) == Strip(s) = <<>>

---------------------------------------------------------------------------
(* Input documents.                                                        *)
(*                                                                         *)
(* A policy-statement element is [name, refs]; refs lists, in document     *)
(* order, the reference elements below it.  A reference is                 *)
(* [form, text, inTerm]: form is the element path that carries the name,   *)
(* inTerm says whether it sits in a term's from/then (TRUE) or in the      *)
(* policy's own from/then, outside any term (FALSE).                       *)

polA == <<"A">>
polB == <<"B">>
polC == <<"C">>
polU == <<"U">>                 \* never declared
badName == <<"x", "\"", "y">>   \* contains a double quote
plL == <<"L">>
commK == <<"K">>
asS == <<"S">>
asM == <<"M">>
apgP == <<"P">>
blank == <<" ">>
grp1 == <<"G", "1">>
grp2 == <<"G", "2">>

Ref(form, text, inTerm) == [form |-> form, text |-> text, inTerm |-> inTerm]

SubForms == {"apply-policy", "policy-name", "policy"}

\* sequences over S of length exactly n
SeqsOfLen(S, n) == [1..n -> S]

\* the import/export expressions a group may carry
expA == <<"A">>
expAB == <<"A", " ", "B">>
expBorC == <<"(", " ", "B", " ", "|", "|", " ", "C", " ", ")">>
expUA == <<"U", ";", "A", ".", "x">>

Group(name, neighbors, exprs) ==
    [name |-> name, neighbors |-> neighbors, exprs |-> exprs]

EmptyDecls == [prefixLists |-> {}, communities |-> {}, asPaths |-> {},
               asPathGroups |-> {}]
FullDecls == [prefixLists |-> {plL}, communities |-> {commK}, asPaths |-> {asS},
              asPathGroups |-> {[name |-> apgP, members |-> {asM}]}]

Document(policies, decls, groups) ==
    [policies |-> policies, decls |-> decls, groups |-> groups]

\* Reference family: three declared policies that reference each other (and
\* a malformed name) through from/policy inside a term, at most MaxSubRefs
\* references in all; one or two BGP groups, each with or without a neighbor.
SubTargets == {polA, polB, polC, badName}

SubRefSeqs(n) == { [i \in 1..n |-> Ref("policy", s[i], TRUE)] : s \in SeqsOfLen(SubTargets, n) }

RefPolicies ==
    UNION { UNION { UNION {
        { << [name |-> polA, refs |-> a], [name |-> polB, refs |-> b],
             [name |-> polC, refs |-> c] >> :
             a \in SubRefSeqs(la), b \in SubRefSeqs(lb), c \in SubRefSeqs(lc) }
        : lc \in 0..(MaxSubRefs - la - lb) }
        : lb \in 0..(MaxSubRefs - la) }
        : la \in 0..MaxSubRefs }

RefGroups ==
    { <<Group(grp1, n1, <<e1>>)>> : n1 \in {<<>>, <<"10.0.0.1">>}, e1 \in {expA, expAB} }
    \cup
    { <<Group(grp1, n1, <<expA>>), Group(grp2, n2, <<expBorC>>)>> :
        n1 \in {<<>>, <<"10.0.0.1">>}, n2 \in {<<>>, <<"10.0.0.2">>} }

RefDocuments ==
    { Document(p, EmptyDecls, g) : p \in RefPolicies, g \in RefGroups }

\* Form family: policy A carries at most MaxFormRefs references of any form
\* and place, policy B none; one BGP group, with or without a neighbor,
\* imports A; the referenced leaf objects are all declared or all undeclared.
FormRefs ==
    { Ref("prefix-list-name", plL, t) : t \in BOOLEAN } \cup
    { Ref("prefix-list/name", plL, t) : t \in BOOLEAN } \cup
    { Ref("community", commK, TRUE), Ref("community", blank, TRUE),
      Ref("community-name", commK, TRUE),
      Ref("as-path", asS, TRUE),
      Ref("as-path-group", apgP, TRUE), Ref("as-path-group", blank, TRUE),
      Ref("as-path-group", badName, TRUE),
      Ref("policy", polB, TRUE), Ref("policy", polB, FALSE),
      Ref("policy-name", polB, FALSE), Ref("apply-policy", polB, FALSE),
      Ref("policy-name", badName, FALSE) }

FormPolicies ==
    UNION { { << [name |-> polA, refs |-> a], [name |-> polB, refs |-> <<>>] >> :
                a \in SeqsOfLen(FormRefs, n) } : n \in 0..MaxFormRefs }

FormGroups ==
    { <<Group(grp1, n1, <<e1>>)>> : n1 \in {<<>>, <<"10.0.0.1">>}, e1 \in {expA, expUA} }

FormDocuments ==
    { Document(p, d, g) : p \in FormPolicies, d \in {EmptyDecls, FullDecls},
                          g \in FormGroups }

Documents == RefDocuments \cup FormDocuments

\* Expression family: policy A, without references, and one BGP group with
\* a neighbor whose import expression is any text of at most MaxExprLen
\* characters: name characters, the separators and their halves, whitespace
\* and parentheses.
ExprChars == {"A", "B", "-", " ", "|", "&", ";", "(", ")"}

Exprs == UNION { SeqsOfLen(ExprChars, n) : n \in 0..MaxExprLen }

ExprDocuments ==
    { Document(<<[name |-> polA, refs |-> <<>>]>>, EmptyDecls,
               <<Group(grp1, <<"10.0.0.1">>, <<x>>)>>) : x \in Exprs }

---------------------------------------------------------------------------
(* XPath queries over the document.                                        *)

AddUsed(u, type, names) == [u EXCEPT ![type] = @ \cup names]

Node(type, name) == <<type, name>>

\* the texts, as a set, of the references of refs with one of the forms
TextsOf(refs, forms) ==
    { refs[i].text : i \in { j \in 1..Len(refs) : refs[j].form \in forms } }

\* policy_xpath (line 81) selects every policy-statement element with the
\* given name; the queries built on it range over all their descendants
RECURSIVE RefsUnder(_, _)
RefsUnder(policies, policy_name) ==
    IF policies = <<>> THEN <<>>
    ELSE (IF Head(policies).name = policy_name THEN Head(policies).refs ELSE <<>>)
         \o RefsUnder(Tail(policies), policy_name)

PolicyRefs(policy_name) == RefsUnder(cfg.policies, policy_name)

\* as_path_group_xpath/as-path/name (lines 107-108, 250-251)
ApgMembers(as_path_group) ==
    UNION { g.members : g \in { h \in cfg.decls.asPathGroups : h.name = as_path_group } }

---------------------------------------------------------------------------
(* collect_policy_dependencies (lines 69-114).                             *)
(*                                                                         *)
(* st = [used, visited, expanded, raised]: used_elements and visited are   *)
(* the mutable arguments shared by the whole pass, expanded logs the names *)
(* that passed the visited guard, raised says an exception is propagating  *)
(* (nothing in the function catches it).                                   *)

\* lines 102-110: the as-path-group references, in document order
RECURSIVE CollectApgs(_, _)
CollectApgs(refs, st) ==
    IF refs = <<>> \/ st.raised THEN st
    ELSE LET r == Head(refs)
         IN  IF r.form # "as-path-group" \/ Blank(r.text)
             THEN CollectApgs(Tail(refs), st)
             ELSE LET st1 == [st EXCEPT !.used = AddUsed(@, "as-path-group", {r.text})]
                  IN  IF Malformed(r.text)
                      THEN [st1 EXCEPT !.raised = TRUE]
                      ELSE CollectApgs(Tail(refs),
                               [st1 EXCEPT !.used = AddUsed(@, "as-path", ApgMembers(r.text))])

\* lines 83-100: prefix-lists (both forms), communities (both forms,
\* blank ones skipped), as-paths
CollectLeaves(refs, u) ==
    LET u1 == AddUsed(u, "prefix-list", TextsOf(refs, {"prefix-list-name"}))
        u2 == AddUsed(u1, "prefix-list", TextsOf(refs, {"prefix-list/name"}))
        u3 == AddUsed(u2, "community",
                  { c \in TextsOf(refs, {"community", "community-name"}) : ~Blank(c) })
    IN  AddUsed(u3, "as-path", TextsOf(refs, {"as-path"}))

\* line 112: apply-policy | policy-name | from/policy, in document order
SubPolicies(refs) ==
    LET subs == SelectSeq(refs, LAMBDA r : r.form \in SubForms)
    IN  [i \in 1..Len(subs) |-> subs[i].text]

RECURSIVE collect_policy_dependencies(_, _)
RECURSIVE CollectSubPolicies(_, _)

\* lines 112-114
CollectSubPolicies(subs, st) ==
    IF subs = <<>> \/ st.raised THEN st
    ELSE CollectSubPolicies(Tail(subs), collect_policy_dependencies(Head(subs), st))

collect_policy_dependencies(policy_name, st) ==
    IF policy_name \in st.visited THEN st
    ELSE LET st1 == [st EXCEPT !.visited = @ \cup {policy_name},
                               !.expanded = Append(@, policy_name),
                               !.used = AddUsed(@, "policy-statement", {policy_name})]
             refs == PolicyRefs(policy_name)
         IN  IF Malformed(policy_name)
             THEN [st1 EXCEPT !.raised = TRUE]
             ELSE LET st2 == CollectApgs(refs,
                                 [st1 EXCEPT !.used = CollectLeaves(refs, @)])
                  IN  CollectSubPolicies(SubPolicies(refs), st2)

---------------------------------------------------------------------------
(* build_dependency_graph (lines 190-303).                                 *)

\* lines 245-253: the as-path-group references of a from section; the edge
\* is added before the lookup that may raise
RECURSIVE ApgEdges(_, _, _)
ApgEdges(src, refs, acc) ==
    IF refs = <<>> THEN [edges |-> acc, raised |-> FALSE]
    ELSE LET r == Head(refs)
         IN  IF r.form # "as-path-group" \/ Blank(r.text)
             THEN ApgEdges(src, Tail(refs), acc)
             ELSE LET apg == Node("as-path-group", r.text)
                      acc1 == acc \cup {<<src, apg>>}
                  IN  IF Malformed(r.text)
                      THEN [edges |-> acc1, raised |-> TRUE]
                      ELSE ApgEdges(src, Tail(refs),
                               acc1 \cup { <<apg, Node("as-path", m)>> : m \in ApgMembers(r.text) })

\* lines 221-266, one policy-statement element: only the references in a
\* term's from/then are read; an exception ends the element's processing
\* (line 265) and keeps the edges added so far
PolicyEdges(policy) ==
    LET src == Node("policy-statement", policy.name)
        refs == SelectSeq(policy.refs, LAMBDA r : r.inTerm)
        To(type, names) == { <<src, Node(type, n)>> : n \in names }
        leaves == To("prefix-list", TextsOf(refs, {"prefix-list-name"}))
                  \cup To("prefix-list", TextsOf(refs, {"prefix-list/name"}))
                  \cup To("community", { c \in TextsOf(refs, {"community"}) : ~Blank(c) })
                  \cup To("as-path", TextsOf(refs, {"as-path"}))
        apgs == ApgEdges(src, refs, {})
        rest == To("policy-statement", TextsOf(refs, {"policy"}))
                \cup To("community", { c \in TextsOf(refs, {"community-name"}) : ~Blank(c) })
    IN  IF apgs.raised THEN leaves \cup apgs.edges
        ELSE leaves \cup apgs.edges \cup rest

\* lines 287-291: the names of all import/export expressions of a group
RECURSIVE ChainNames(_)
ChainNames(exprs) ==
    IF exprs = <<>> THEN <<>>
    ELSE Normalize(Head(exprs)) \o ChainNames(Tail(exprs))

\* ResolveChain as it would be if a name were looked up before it is marked:
\* a name that no policy-statement declares is skipped
RECURSIVE ResolveChainDeclaredOnly(_, _, _)
ResolveChainDeclaredOnly(group_name, policy_names, run) ==
    IF policy_names = <<>> \/ run.raised THEN run
    ELSE LET pn == Head(policy_names)
             c == collect_policy_dependencies(pn,
                      [used |-> AddUsed(run.used, "policy-statement", {pn}),
                       visited |-> {}, expanded |-> <<>>, raised |-> FALSE])
         IN  IF \E i \in 1..Len(cfg.policies) : cfg.policies[i].name = pn
             THEN ResolveChainDeclaredOnly(group_name, Tail(policy_names),
                      [used |-> c.used,
                       G |-> run.G \cup { <<Node("bgp-group", group_name),
                                            Node("policy-statement", pn)>> },
                       passes |-> Append(run.passes, c.expanded),
                       raised |-> c.raised])
             ELSE ResolveChainDeclaredOnly(group_name, Tail(policy_names), run)

\* lines 292-296; run = [used, G, passes, raised]
RECURSIVE ResolveChain(_, _, _)
ResolveChain(group_name, policy_names, run) ==
    IF policy_names = <<>> \/ run.raised THEN run
    ELSE LET pn == Head(policy_names)
             c == collect_policy_dependencies(pn,
                      [used |-> AddUsed(run.used, "policy-statement", {pn}),
                       visited |-> {}, expanded |-> <<>>, raised |-> FALSE])
         IN  ResolveChain(group_name, Tail(policy_names),
                 [used |-> c.used,
                  G |-> run.G \cup { <<Node("bgp-group", group_name),
                                       Node("policy-statement", pn)>> },
                  passes |-> Append(run.passes, c.expanded),
                  raised |-> c.raised])

\* lines 276-277
IsActive(group) == Len(group.neighbors) > 0

\* GroupIteration as it would be without the is_active test of line 283
GroupIterationAnyGroup(group, run) ==
    ResolveChain(group.name, ChainNames(group.exprs),
        [run EXCEPT !.used = AddUsed(@, "bgp-group", {group.name})])

\* lines 271-298, one iteration of the group loop
GroupIteration(group, run) ==
    IF IsActive(group)
    THEN ResolveChain(group.name, ChainNames(group.exprs),
             [run EXCEPT !.used = AddUsed(@, "bgp-group", {group.name})])
    ELSE run

---------------------------------------------------------------------------
(* find_unused_elements (lines 116-188).                                   *)

\* the 'defined' XPath of each type (lines 119-144)
Defined(type) ==
    CASE type = "prefix-list" ->
             cfg.decls.prefixLists
             \cup UNION { TextsOf(cfg.policies[i].refs, {"prefix-list/name"}) :
                          i \in 1..Len(cfg.policies) }
      [] type = "community" -> cfg.decls.communities
      [] type = "as-path" ->
             cfg.decls.asPaths \cup UNION { g.members : g \in cfg.decls.asPathGroups }
      [] type = "as-path-group" -> { g.name : g \in cfg.decls.asPathGroups }
      [] type = "policy-statement" ->
             { cfg.policies[i].name : i \in 1..Len(cfg.policies) }
      [] type = "bgp-group" ->
             { cfg.groups[i].name : i \in 1..Len(cfg.groups) }

\* find_unused_elements as it would be without the subtraction of line 184
find_unused_elements_all_defined(used_elements) ==
    [t \in { x \in Types : Defined(x) # {} } |-> Defined(t)]

\* lines 179-188
find_unused_elements(used_elements) ==
    LET Unused(t) == Defined(t) \ used_elements[t]
    IN  [t \in { x \in Types : Unused(x) # {} } |-> Unused(t)]

---------------------------------------------------------------------------
(* find_independent_components (lines 305-313).                            *)

Nodes(E) == { e[1] : e \in E } \cup { e[2] : e \in E }

Predecessors(E, node) == { e[1] : e \in { f \in E : f[2] = node } }

Successors(E, node) == { e[2] : e \in { f \in E : f[1] = node } }

InDegree(E, node) == Cardinality(Predecessors(E, node))

\* nx.weakly_connected_components: breadth-first search over successors and
\* predecessors from each node not yet seen
RECURSIVE PlainBfs(_, _)
PlainBfs(E, seen) ==
    LET next == seen \cup UNION { Successors(E, n) \cup Predecessors(E, n) : n \in seen }
    IN  IF next = seen THEN seen ELSE PlainBfs(E, next)

\* the components as a search along edge direction only would give them
RECURSIVE ForwardBfs(_, _)
ForwardBfs(E, seen) ==
    LET next == seen \cup UNION { Successors(E, n) : n \in seen }
    IN  IF next = seen THEN seen ELSE ForwardBfs(E, next)

DirectedComponents(E) == { ForwardBfs(E, {n}) : n \in Nodes(E) }

WeaklyConnectedComponents(E) == { PlainBfs(E, {n}) : n \in Nodes(E) }

\* the filter as it would be if it dropped every component that has a node
\* with an incoming edge, wherever the edge comes from
find_independent_components_no_in_edge(E) ==
    { component \in WeaklyConnectedComponents(E) :
        ~ \E node \in component : InDegree(E, node) > 0 }

find_independent_components(E) ==
    { component \in WeaklyConnectedComponents(E) :
        ~ \E node \in component : \E pred \in Predecessors(E, node) :
              pred \notin component /\ InDegree(E, node) > 0 }

---------------------------------------------------------------------------
(* main(): the run.                                                        *)

Init ==
    /\ cfg \in Documents
    /\ pc = "policies"
    /\ gi = 1
    /\ G = {}
    /\ used = [t \in Types |-> {}]
    /\ active_groups = {}
    /\ passes = <<>>
    /\ caught = {}
    /\ unused = [t \in {} |-> {}]
    /\ independent = {}

\* lines 220-266: the loop over all policy-statement elements
BuildPolicyEdges ==
    /\ pc = "policies"
    /\ G' = G \cup UNION { PolicyEdges(cfg.policies[i]) : i \in 1..Len(cfg.policies) }
    /\ pc' = "groups"
    /\ UNCHANGED <<cfg, gi, used, active_groups, passes, caught, unused, independent>>

\* lines 270-298: one iteration of the loop over the BGP groups
ProcessGroup ==
    /\ pc = "groups"
    /\ gi <= Len(cfg.groups)
    /\ LET group == cfg.groups[gi]
           run == GroupIteration(group,
                      [used |-> used, G |-> G, passes |-> passes, raised |-> FALSE])
       IN  /\ used' = run.used
           /\ G' = run.G
           /\ passes' = run.passes
           /\ caught' = IF run.raised THEN caught \cup {gi} ELSE caught
           /\ active_groups' = IF IsActive(group)
                               THEN active_groups \cup {group.name}
                               ELSE active_groups
    /\ gi' = gi + 1
    /\ UNCHANGED <<cfg, pc, unused, independent>>

\* line 370, after build_dependency_graph has returned
FindUnusedElements ==
    /\ pc = "groups"
    /\ gi > Len(cfg.groups)
    /\ unused' = find_unused_elements(used)
    /\ pc' = "components"
    /\ UNCHANGED <<cfg, gi, G, used, active_groups, passes, caught, independent>>

\* line 379
FindIndependentComponents ==
    /\ pc = "components"
    /\ independent' = find_independent_components(G)
    /\ pc' = "done"
    /\ UNCHANGED <<cfg, gi, G, used, active_groups, passes, caught, unused>>

Next ==
    \/ BuildPolicyEdges
    \/ ProcessGroup
    \/ FindUnusedElements
    \/ FindIndependentComponents

Spec == Init /\ [][Next]_vars

\* the run on the documents of the expression family
InitExpr ==
    /\ cfg \in ExprDocuments
    /\ pc = "policies"
    /\ gi = 1
    /\ G = {}
    /\ used = [t \in Types |-> {}]
    /\ active_groups = {}
    /\ passes = <<>>
    /\ caught = {}
    /\ unused = [t \in {} |-> {}]
    /\ independent = {}

SpecExpr == InitExpr /\ [][Next]_vars

Done == pc = "done"

---------------------------------------------------------------------------
(* Vocabulary of the claims, stated on the document and not on the run.    *)

Range(seq) == { seq[i] : i \in 1..Len(seq) }

GroupIndexes == 1..Len(cfg.groups)

\* a group with at least one configured neighbor name
HasNeighbor(group) == group.neighbors # <<>>

ActiveIndexes == { i \in GroupIndexes : HasNeighbor(cfg.groups[i]) }

\* the policy names of a group's normalised import/export chain
ChainOf(i) == Range(ChainNames(cfg.groups[i].exprs))

\* the names a policy references directly, per type
RefersTo(p, type) ==
    LET refs == PolicyRefs(p)
    IN  CASE type = "prefix-list" -> TextsOf(refs, {"prefix-list-name", "prefix-list/name"})
          [] type = "community" ->
                 { c \in TextsOf(refs, {"community", "community-name"}) : ~Blank(c) }
          [] type = "as-path" -> TextsOf(refs, {"as-path"})
          [] type = "as-path-group" ->
                 { g \in TextsOf(refs, {"as-path-group"}) : ~Blank(g) }
          [] type = "policy-statement" -> TextsOf(refs, SubForms)
          [] type = "bgp-group" -> {}

\* the policies reachable from a set of policy names over policy references
RECURSIVE PolicyClosure(_)
PolicyClosure(S) ==
    LET next == S \cup UNION { RefersTo(p, "policy-statement") : p \in S }
    IN  IF next = S THEN S ELSE PolicyClosure(next)

\* per type, the names reachable over reference edges from the policies seeds
ReachableSets(seeds) ==
    LET pols == PolicyClosure(seeds)
        Direct(t) == UNION { RefersTo(p, t) : p \in pols }
        apgs == Direct("as-path-group")
    IN  [t \in Types |->
            CASE t = "policy-statement" -> pols
              [] t = "as-path" -> Direct("as-path") \cup UNION { ApgMembers(g) : g \in apgs }
              [] t = "as-path-group" -> apgs
              [] t = "bgp-group" -> {}
              [] OTHER -> Direct(t)]

\* per type, the names reachable from the active BGP groups
ReachableFromActive ==
    [ReachableSets(UNION { ChainOf(i) : i \in ActiveIndexes })
        EXCEPT !["bgp-group"] = { cfg.groups[i].name : i \in ActiveIndexes }]

\* the names of a type that the configuration declares
Declared(type) ==
    CASE type = "prefix-list" -> cfg.decls.prefixLists
      [] type = "community" -> cfg.decls.communities
      [] type = "as-path" ->
             cfg.decls.asPaths \cup UNION { g.members : g \in cfg.decls.asPathGroups }
      [] type = "as-path-group" -> { g.name : g \in cfg.decls.asPathGroups }
      [] type = "policy-statement" -> { cfg.policies[i].name : i \in 1..Len(cfg.policies) }
      [] type = "bgp-group" -> { cfg.groups[i].name : i \in GroupIndexes }

\* the names the unused report lists for a type
Reported(type) == IF type \in DOMAIN unused THEN unused[type] ELSE {}

ReportDone == pc \in {"components", "done"}

---------------------------------------------------------------------------
(* The claims.                                                             *)

\* C1: for every type, the names the unused report lists are exactly
\* defined[type] minus used[type]; a type is listed only when that
\* difference is not empty; no reported name is in used[type].
ThmC1 ==
    ReportDone =>
        \A t \in Types :
            /\ \A n \in Defined(t) \cup used[t] \cup Reported(t) :
                   n \in Reported(t) <=> (n \in Defined(t) /\ n \notin used[t])
            /\ (t \in DOMAIN unused => unused[t] # {})
            /\ Reported(t) \cap used[t] = {}

\* a report that lists a type, omits another type that has definitions, and
\* leaves out a defined name because it is used
WitC1 ==
    /\ ReportDone
    /\ \E t \in Types : Reported(t) # {} /\ Defined(t) \cap used[t] # {}
    /\ \E t \in Types : Defined(t) # {} /\ t \notin DOMAIN unused

\* C2: after the run, for each type, used[type] is the set of names
\* reachable over reference edges from the active BGP groups (a set the
\* processing order has no part in).
CexC2 == Done => used = ReachableFromActive

\* C3: after build_dependency_graph every name in a used set is an active
\* group or is reachable from the import/export chain of an active group;
\* nothing is in a used set on account of a group without neighbor.
ThmC3 ==
    Done =>
        LET reach == ReachableFromActive
        IN  \A t \in Types : used[t] \subseteq reach[t]

\* a finished run with an active group and a neighborless group whose chain
\* names a declared policy, with references of its own, that stays unmarked
WitC3 ==
    /\ Done
    /\ ActiveIndexes # {}
    /\ used["policy-statement"] # {}
    /\ \E i \in GroupIndexes \ ActiveIndexes : \E p \in ChainOf(i) :
           /\ p \in Declared("policy-statement")
           /\ PolicyRefs(p) # <<>>
           /\ p \notin used["policy-statement"]

\* the policies that p reaches over one or more policy references
SubPlus(p) == PolicyClosure(RefersTo(p, "policy-statement"))

\* the policies on a reference cycle through p
CycleOf(p) == { q \in SubPlus(p) : p \in SubPlus(q) }

NoRepeat(seq) == \A i, j \in 1..Len(seq) : seq[i] = seq[j] => i = j

\* C4: after the run, every policy on a reference cycle through a policy
\* that an active group imports is marked used, and no resolution pass
\* expanded a policy name twice.
CexC4 ==
    Done =>
        /\ \A i \in ActiveIndexes : \A p \in ChainOf(i) :
               CycleOf(p) \subseteq used["policy-statement"]
        /\ \A k \in 1..Len(passes) : NoRepeat(passes[k])

\* a set of nodes that no edge enters or leaves
ClosedUnderEdges(E, C) == \A e \in E : e[1] \in C <=> e[2] \in C

\* the weakly-connected components: the minimal non-empty sets of nodes
\* closed under edges
ComponentsOf(E) ==
    { C \in SUBSET Nodes(E) :
        /\ C # {}
        /\ ClosedUnderEdges(E, C)
        /\ \A D \in SUBSET C : (D # {} /\ D # C) => ~ClosedUnderEdges(E, D) }

\* C5: the result of find_independent_components is exactly the set of
\* weakly-connected components no node of which has a predecessor outside
\* the component; a graph with a single edge between two nodes yields exactly
\* one independent component, the set of both nodes.
ThmC5 ==
    Done =>
        /\ independent =
               { C \in ComponentsOf(G) :
                   \A n \in C : \A e \in G : e[2] = n => e[1] \in C }
        /\ \A e \in G : (G = {e} /\ e[1] # e[2]) => independent = {{e[1], e[2]}}

\* a finished run whose graph has the single edge policy-statement.A ->
\* policy-statement.B
WitC5 ==
    /\ Done
    /\ G = { <<Node("policy-statement", polA), Node("policy-statement", polB)>> }

\* C6: after the run, for every BGP group, with or without neighbors, and
\* every policy name of its normalised import/export chain, the graph has
\* the edge bgp-group.G -> policy-statement.P.
CexC6 ==
    Done =>
        \A i \in GroupIndexes : \A p \in ChainOf(i) :
            <<Node("bgp-group", cfg.groups[i].name), Node("policy-statement", p)>> \in G

\* C7: after the run, for every declared policy P and every entity (T, N)
\* that expanding P marks used directly, in whatever form and place inside
\* P, the graph has the edge policy-statement.P -> T.N.
CexC7 ==
    Done =>
        \A p \in Declared("policy-statement") : \A t \in Types :
            \A n \in RefersTo(p, t) :
                <<Node("policy-statement", p), Node(t, n)>> \in G

\* the first policy name of a group's normalised chain, as a set
FirstOfChain(i) ==
    LET names == ChainNames(cfg.groups[i].exprs)
    IN  IF names = <<>> THEN {} ELSE {Head(names)}

CexC9 == ReportDone => \A t \in Types : Reported(t) \subseteq Declared(t)

\* C10: after a run in which a group's except branch ran, every policy of
\* every active group's chain, and everything reachable from it, is marked
\* used as it is when nothing raises.
CexC10 ==
    (Done /\ caught # {}) =>
        \A i \in ActiveIndexes :
            LET reach == ReachableSets(ChainOf(i))
            IN  \A t \in Types : reach[t] \subseteq used[t]

\* the names of a sequence joined by single spaces
RECURSIVE JoinSpace(_)
JoinSpace(names) ==
    IF names = <<>> THEN <<>>
    ELSE IF Len(names) = 1 THEN Head(names)
    ELSE Head(names) \o <<" ">> \o JoinSpace(Tail(names))

\* a text made of word characters and hyphens only
ValidName(x) == x # <<>> /\ \A i \in 1..Len(x) : x[i] \in WordChars

\* the import/export expressions of the document
AllExprs == UNION { Range(cfg.groups[i].exprs) : i \in GroupIndexes }

\* C11: for every import/export expression x of the document, normalising
\* the space-joined names of Normalize(x) gives Normalize(x) again, the names
\* the run marked for an active group are those of the re-normalised chain,
\* and an expression that is a single valid name normalises to that name.
ThmC11 ==
    /\ \A x \in AllExprs :
           /\ Normalize(JoinSpace(Normalize(x))) = Normalize(x)
           /\ ValidName(x) => Normalize(x) = <<x>>
    /\ Done =>
           \A i \in ActiveIndexes :
               \A p \in Range(Normalize(JoinSpace(ChainNames(cfg.groups[i].exprs)))) :
                   p \in used["policy-statement"]

\* a finished run whose group carried an expression with a separator or a
\* parenthesis that normalises to two names, both marked, and differs from
\* their space-joined form
WitC11 ==
    /\ Done
    /\ \E x \in AllExprs :
           /\ Len(Normalize(x)) = 2
           /\ JoinSpace(Normalize(x)) # x
           /\ \E i \in 1..Len(x) : x[i] \in {"|", "&", ";", "(", ")"}
           /\ Range(Normalize(x)) \subseteq used["policy-statement"]

\* C12: after the run, the result of find_independent_components is the
\* set of all weakly-connected components of the graph, none left out: no
\* edge of the graph joins two different components, the returned sets are
\* pairwise disjoint and their union is the set of nodes of the graph.
ThmC12 ==
    Done =>
        /\ independent = ComponentsOf(G)
        /\ \A e \in G : \A C \in ComponentsOf(G) : e[2] \in C => e[1] \in C
        /\ \A C \in independent : \A D \in independent : C # D => C \cap D = {}
        /\ UNION independent = Nodes(G)

\* a finished run whose graph has at least two components, one of them of
\* three nodes or more, with a node of in-degree two inside a returned
\* component
WitC12 ==
    /\ Done
    /\ Cardinality(independent) >= 2
    /\ \E C \in independent :
           /\ Cardinality(C) >= 3
           /\ \E node \in C : InDegree(G, node) >= 2

===========================================================================
